---- MODULE Spec2Model ----
(***************************************************************************)
(* Model of the permission system: the PolicyBuilder (staged construction  *)
(* of a PolicyDefinition) and AccessControl.hasPermission (the evaluator). *)
(*                                                                         *)
(* JavaScript values are records tagged by their typeof ("t").  The three  *)
(* mapping layers of a PolicyDefinition (roles -> resources -> actions)    *)
(* are plain objects: functions from names to values, Undefined where the  *)
(* object has no own property.  Property reads go through Get, which       *)
(* follows the prototype chain as obj[key] does.                           *)
(***************************************************************************)
EXTENDS Integers, Sequences, FiniteSets, TLC

\* Longest caller role list that is enumerated.
MaxRoles == 2

(***************************************************************************)
(* Names                                                                   *)
(***************************************************************************)
\* Roles, resources and actions that declarations use.  Declarations for
\* "author" are drawn for "article" only.
DeclRoles == {"admin", "author"}
DeclResources == {"article", "*"}
DeclActions == {"delete", "*"}
ResourcesFor(role) == IF role = "admin" THEN DeclResources ELSE {"article"}

\* Names that requests use: the declared ones, an action nobody declares,
\* and names that JavaScript objects inherit.
RoleNames == DeclRoles \cup {"constructor"}
ResourceNames == DeclResources \cup {"prototype"}
ActionNames == DeclActions \cup {"read", "toString", "valueOf"}

(***************************************************************************)
(* JavaScript values                                                       *)
(***************************************************************************)
Undefined == [t |-> "undefined"]
Null == [t |-> "null"]
Bool(b) == [t |-> "boolean", b |-> b]
Str(s) == [t |-> "string", s |-> s]
Num(n) == [t |-> "number", n |-> n]
Arr(elems) == [t |-> "array", elems |-> elems]
Fn(f) == [t |-> "function", f |-> f]
Obj(o) == [t |-> "object", o |-> o]

\* A plain object of the policy tree (a function from names to values).
IsPlain(v) == "t" \notin DOMAIN v

\* ToBoolean: what `!x`, `x || y` and Array.prototype.some test.
Truthy(v) ==
  IF IsPlain(v) THEN TRUE
  ELSE CASE v.t = "undefined" -> FALSE
         [] v.t = "null" -> FALSE
         [] v.t = "boolean" -> v.b
         [] v.t = "string" -> v.s # ""
         [] v.t = "number" -> v.n # 0
         [] OTHER -> TRUE

\* Built-in objects reachable from a plain object through its prototype.
ObjectPrototypeObj == Obj("Object.prototype")
ObjectCtor == Fn("Object")

\* Properties of Object.prototype, inherited by every plain object.
ObjectPrototype(k) ==
  CASE k = "toString" -> Fn("Object.prototype.toString")
    [] k = "valueOf" -> Fn("Object.prototype.valueOf")
    [] k = "constructor" -> ObjectCtor
    [] OTHER -> Undefined

\* Properties of Function.prototype, inherited by every function.
FunctionPrototype(k) ==
  CASE k = "toString" -> Fn("Function.prototype.toString")
    [] k = "constructor" -> Fn("Function")
    [] OTHER -> ObjectPrototype(k)

\* obj[key]: the own property if there is one, else the prototype chain's.
Get(v, k) ==
  IF IsPlain(v)
    THEN IF k \in DOMAIN v /\ v[k] # Undefined THEN v[k] ELSE ObjectPrototype(k)
  ELSE IF v = ObjectPrototypeObj THEN ObjectPrototype(k)
  ELSE IF v = ObjectCtor
    THEN IF k = "prototype" THEN ObjectPrototypeObj ELSE FunctionPrototype(k)
  ELSE IF v.t = "function" THEN FunctionPrototype(k)
  ELSE Undefined

(***************************************************************************)
(* Completions: a call returns a value or throws; calls lists the rule     *)
(* functions that were invoked, with their arguments, in order.            *)
(***************************************************************************)
Return(v, calls) == [c |-> "return", v |-> v, calls |-> calls]
Throw(e, calls) == [c |-> "throw", v |-> Str(e), calls |-> calls]

(***************************************************************************)
(* Rules (PermissionCheck): a boolean or a function of (user, data)        *)
(***************************************************************************)
\* (user, article) => user.id === article.authorId
IsOwner == Fn("isOwner")

\* check(user, data): a plain call, so the callee's `this` is undefined.
Invoke(check, user, data) ==
  LET absent == data \in {Undefined, Null}
      call == <<[fn |-> check, user |-> user, data |-> data]>>
  IN CASE check = IsOwner ->
            IF absent THEN Throw("TypeError", call)
            ELSE Return(Bool(user.id = data.authorId), call)
       [] check = Fn("Object.prototype.toString") ->
            Return(Str("[object Undefined]"), call)
       [] check = ObjectCtor -> Return(user, call)
       [] check = Fn("Function") -> Throw("SyntaxError", call)
       [] OTHER -> Throw("TypeError", call)

(***************************************************************************)
(* AccessControl                                                           *)
(***************************************************************************)
\* Variant: a throwing rule is caught and counted as a deny.
evaluateCheckSwallow(check, user, data) ==
  IF ~IsPlain(check) /\ check.t = "boolean" THEN Return(check, <<>>)
  ELSE IF ~IsPlain(check) /\ check.t = "function"
    THEN LET r == Invoke(check, user, data) IN
         IF r.c = "throw" THEN Return(Bool(FALSE), r.calls) ELSE r
  ELSE Return(Bool(FALSE), <<>>)

\* Variant: only functions are evaluated, a boolean falls through to false.
evaluateCheckFunctionOnly(check, user, data) ==
  IF ~IsPlain(check) /\ check.t = "function" THEN Invoke(check, user, data)
  ELSE Return(Bool(FALSE), <<>>)

\* Variant: the rule is called without the resource instance.
evaluateCheckNoData(check, user, data) ==
  IF ~IsPlain(check) /\ check.t = "boolean" THEN Return(check, <<>>)
  ELSE IF ~IsPlain(check) /\ check.t = "function" THEN Invoke(check, user, Undefined)
  ELSE Return(Bool(FALSE), <<>>)

evaluateCheck(check, user, data) ==
  IF ~IsPlain(check) /\ check.t = "boolean" THEN Return(check, <<>>)
  ELSE IF ~IsPlain(check) /\ check.t = "function" THEN Invoke(check, user, data)
  ELSE Return(Bool(FALSE), <<>>)

\* Variant: the wildcard rule is looked up before the action's own rule.
checkRolePermissionWildcardFirst(roles, role, resource, action, user, data) ==
  LET rolePolicy == Get(roles, role) IN
  IF ~Truthy(rolePolicy) THEN Return(Bool(FALSE), <<>>)
  ELSE LET resourcePolicy == Get(rolePolicy, resource) IN
    IF ~Truthy(resourcePolicy) THEN Return(Bool(FALSE), <<>>)
    ELSE LET wildcard == Get(resourcePolicy, "*")
             permissionCheck ==
               IF wildcard # Undefined THEN wildcard ELSE Get(resourcePolicy, action)
         IN evaluateCheck(permissionCheck, user, data)

\* Variant: a role hierarchy, "admin" also has what "author" has.
checkRolePermissionInherit(roles, role, resource, action, user, data) ==
  LET of(r) ==
        LET rolePolicy == Get(roles, r) IN
        IF ~Truthy(rolePolicy) THEN Return(Bool(FALSE), <<>>)
        ELSE LET resourcePolicy == Get(rolePolicy, resource) IN
          IF ~Truthy(resourcePolicy) THEN Return(Bool(FALSE), <<>>)
          ELSE evaluateCheck(Get(resourcePolicy, action), user, data)
      own == of(role)
  IN IF role = "admin" /\ own.c = "return" /\ ~Truthy(own.v)
       THEN of("author") ELSE own

\* Variant: the rules under the resource name '*' stand in for a resource
\* that the role does not declare.
checkRolePermissionStarResource(roles, role, resource, action, user, data) ==
  LET rolePolicy == Get(roles, role) IN
  IF ~Truthy(rolePolicy) THEN Return(Bool(FALSE), <<>>)
  ELSE LET own == Get(rolePolicy, resource)
           resourcePolicy == IF Truthy(own) THEN own ELSE Get(rolePolicy, "*")
       IN
    IF ~Truthy(resourcePolicy) THEN Return(Bool(FALSE), <<>>)
    ELSE evaluateCheck(Get(resourcePolicy, action), user, data)

checkRolePermission(roles, role, resource, action, user, data) ==
  LET rolePolicy == Get(roles, role) IN
  IF ~Truthy(rolePolicy) THEN Return(Bool(FALSE), <<>>)
  ELSE LET resourcePolicy == Get(rolePolicy, resource) IN
    IF ~Truthy(resourcePolicy) THEN Return(Bool(FALSE), <<>>)
    ELSE LET permissionCheck == Get(resourcePolicy, action) IN
      evaluateCheck(permissionCheck, user, data)

\* Variant: no `|| []` default.
getUserRolesNoDefault(user) == user.roles

getUserRoles(user) ==
  IF Truthy(user.roles) THEN user.roles ELSE Arr(<<>>)

\* Variant: every role is resolved, and the results are or-ed at the end.
RECURSIVE someExhaustive(_, _, _, _, _, _, _, _)
someExhaustive(roles, elems, i, resource, action, user, data, calls) ==
  IF i > Len(elems) THEN Return(Bool(FALSE), calls)
  ELSE LET r == checkRolePermission(roles, elems[i], resource, action, user, data)
           seen == calls \o r.calls
       IN IF r.c = "throw" THEN Throw(r.v.s, seen)
          ELSE LET rest == someExhaustive(roles, elems, i + 1, resource, action,
                                          user, data, seen)
               IN IF rest.c = "throw" THEN rest
                  ELSE Return(Bool(Truthy(r.v) \/ Truthy(rest.v)), rest.calls)

\* Array.prototype.some from index i on: stops at the first truthy result,
\* and a throw of the callback ends the iteration.
RECURSIVE some(_, _, _, _, _, _, _, _)
some(roles, elems, i, resource, action, user, data, calls) ==
  IF i > Len(elems) THEN Return(Bool(FALSE), calls)
  ELSE LET r == checkRolePermission(roles, elems[i], resource, action, user, data)
           seen == calls \o r.calls
       IN IF r.c = "throw" THEN Throw(r.v.s, seen)
          ELSE IF Truthy(r.v) THEN Return(Bool(TRUE), seen)
          ELSE some(roles, elems, i + 1, resource, action, user, data, seen)

\* Variant: roles.every instead of roles.some (a deny overrides a grant).
RECURSIVE every(_, _, _, _, _, _, _, _)
every(roles, elems, i, resource, action, user, data, calls) ==
  IF i > Len(elems) THEN Return(Bool(TRUE), calls)
  ELSE LET r == checkRolePermission(roles, elems[i], resource, action, user, data)
           seen == calls \o r.calls
       IN IF r.c = "throw" THEN Throw(r.v.s, seen)
          ELSE IF ~Truthy(r.v) THEN Return(Bool(FALSE), seen)
          ELSE every(roles, elems, i + 1, resource, action, user, data, seen)

hasPermissionEvery(roles, user, resource, action, data) ==
  LET held == getUserRoles(user) IN
  IF held.t = "array"
    THEN every(roles, held.elems, 1, resource, action, user, data, <<>>)
    ELSE Throw("TypeError", <<>>)

\* Variant: only the first role of the list is checked.
hasPermissionFirstOnly(roles, user, resource, action, data) ==
  LET held == getUserRoles(user) IN
  IF held.t = "array"
    THEN some(roles, IF held.elems = <<>> THEN <<>> ELSE <<held.elems[1]>>, 1,
              resource, action, user, data, <<>>)
    ELSE Throw("TypeError", <<>>)

\* Variant: a role listed twice cancels itself (roles counted, not OR-ed).
RECURSIVE countGrants(_, _, _, _, _, _, _, _, _)
countGrants(roles, elems, i, resource, action, user, data, calls, n) ==
  IF i > Len(elems) THEN Return(Bool(n % 2 = 1), calls)
  ELSE LET r == checkRolePermission(roles, elems[i], resource, action, user, data)
           seen == calls \o r.calls
       IN IF r.c = "throw" THEN Throw(r.v.s, seen)
          ELSE countGrants(roles, elems, i + 1, resource, action, user, data, seen,
                           IF Truthy(r.v) THEN n + 1 ELSE n)

hasPermissionParity(roles, user, resource, action, data) ==
  LET held == getUserRoles(user) IN
  IF held.t = "array"
    THEN countGrants(roles, held.elems, 1, resource, action, user, data, <<>>, 0)
    ELSE Throw("TypeError", <<>>)

hasPermission(roles, user, resource, action, data) ==
  LET held == getUserRoles(user) IN
  IF held.t = "array"
    THEN some(roles, held.elems, 1, resource, action, user, data, <<>>)
    ELSE Throw("TypeError", <<>>)

(***************************************************************************)
(* Inputs                                                                  *)
(***************************************************************************)
RoleLists == UNION {[1..n -> RoleNames] : n \in 0..MaxRoles}

\* What a caller's `roles` attribute may hold.
RolesValues ==
  {Arr(l) : l \in RoleLists}
    \cup {Undefined, Null, Str(""), Str("admin"), Num(7), Obj("plain")}

Users == {[id |-> "1", roles |-> rv] : rv \in RolesValues}

Article(authorId) == [t |-> "object", authorId |-> authorId]
Instances == {Undefined, Null, Article("1"), Article("2")}

\* The action maps that can() is given.
ActionMap(delete, star) == [a \in DeclActions |-> IF a = "delete" THEN delete ELSE star]
ActionMaps ==
  { ActionMap(Bool(TRUE), Undefined),
    ActionMap(Bool(FALSE), Bool(TRUE)),
    ActionMap(IsOwner, Undefined),
    ActionMap(Undefined, Bool(TRUE)) }

EmptyObject(keys) == [k \in keys |-> Undefined]

(***************************************************************************)
(* State                                                                   *)
(***************************************************************************)
VARIABLES
  policy,  \* PolicyBuilder.policy.roles, the object build() hands out
  chain,   \* the object the last builder call returned: the builder itself
           \* or a stage object
  built,   \* build() has returned the policy object
  acl,     \* an AccessControl holds the policy object
  ret,     \* the hasPermission call that has just completed, if any
  log,     \* history: the builder calls made so far, as BuilderSpec records
           \* them (the program keeps no such record)
  kept     \* a stage object that the caller has stored in a variable of its
           \* own (StageSpec), NoStage if none

vars == <<policy, chain, built, acl, ret, log, kept>>

Builder == [stage |-> "builder"]
RoleStage(role) == [stage |-> "role", role |-> role]
ResourceStage(role, resource) ==
  [stage |-> "resource", role |-> role, resource |-> resource]

\* The chain statement has thrown instead of returning an object.
Thrown(e) == [stage |-> "thrown", error |-> e]

NoCall == [call |-> "none"]
NoStage == [stage |-> "none"]

Init ==
  /\ policy = EmptyObject(DeclRoles)
  /\ chain = Builder
  /\ built = FALSE
  /\ acl = FALSE
  /\ ret = NoCall
  /\ log = <<>>
  /\ kept = NoStage

(***************************************************************************)
(* PolicyBuilder                                                           *)
(***************************************************************************)
\* Variant: the role's entry is created anew at every declaration.
EnsureRoleReset(roles, role) ==
  [roles EXCEPT ![role] = EmptyObject(DeclResources)]

\* if (!this.policy.roles[role]) this.policy.roles[role] = {}
EnsureRole(roles, role) ==
  IF ~Truthy(Get(roles, role))
    THEN [roles EXCEPT ![role] = EmptyObject(DeclResources)]
    ELSE roles

\* Variant: the new actions are merged into the pair's earlier map.
updatePolicyMerge(roles, role, resource, actions) ==
  LET ensured == EnsureRole(roles, role)
      old == ensured[role][resource]
      merged == IF old = Undefined THEN actions
                ELSE [a \in DOMAIN actions |->
                        IF actions[a] # Undefined THEN actions[a] ELSE old[a]]
  IN [ensured EXCEPT ![role][resource] = merged]

\* Variant: the role's entry is replaced by one holding the new pair alone.
updatePolicyClobber(roles, role, resource, actions) ==
  [roles EXCEPT ![role] =
     [EmptyObject(DeclResources) EXCEPT ![resource] = actions]]

updatePolicy(roles, role, resource, actions) ==
  LET ensured == EnsureRole(roles, role) IN
  [ensured EXCEPT ![role][resource] = actions]

\* The builder stays reachable whatever stage object the chain has produced.
ForRole(role) ==
  /\ ret = NoCall
  /\ policy' = EnsureRole(policy, role)
  /\ chain' = RoleStage(role)
  /\ UNCHANGED <<built, acl, ret>>

\* onResource is a method of the role stage only.  Called on the builder
\* (what `new PolicyBuilder()` and can() evaluate to), `.onResource` is
\* undefined and the call throws a TypeError; TypeScript rejects such a
\* call, JavaScript runs it.
OnResource ==
  /\ \/ /\ chain.stage = "role"
        /\ \E resource \in ResourcesFor(chain.role) :
             chain' = ResourceStage(chain.role, resource)
     \/ /\ chain.stage = "builder"
        /\ ret = NoCall
        /\ chain' = Thrown("TypeError")
  /\ UNCHANGED <<policy, built, acl, ret>>

Can(actions) ==
  /\ chain.stage = "resource"
  /\ policy' = updatePolicy(policy, chain.role, chain.resource, actions)
  /\ chain' = Builder
  /\ UNCHANGED <<built, acl, ret>>

\* Variant: build() hands the store over and the builder starts afresh.
BuildConsuming ==
  /\ ret = NoCall
  /\ built' = TRUE
  /\ policy' = EmptyObject(DeclRoles)
  /\ UNCHANGED <<chain, acl, ret>>

Build ==
  /\ ret = NoCall
  /\ built' = TRUE
  /\ UNCHANGED <<policy, chain, acl, ret>>

\* new AccessControl(policy): keeps the object it is given.
NewAccessControl ==
  /\ built
  /\ ret = NoCall
  /\ acl' = TRUE
  /\ UNCHANGED <<policy, chain, built, ret>>

\* builder.updatePolicy(role, resource, actions): the method that can() calls
\* is a public method of the exported class, called here as a statement of
\* its own.  It returns nothing.
UpdatePolicy ==
  /\ chain = Builder
  /\ ret = NoCall
  /\ \E role \in DeclRoles :
       \E resource \in ResourcesFor(role), actions \in ActionMaps :
         policy' = updatePolicy(policy, role, resource, actions)
  /\ UNCHANGED <<chain, built, acl, ret>>

\* A statement ends on a stage object, which is dropped: forRole(r); or
\* forRole(r).onResource(x); without the calls that would follow.  A
\* statement that threw has ended too; the builder is still there.
EndStatement ==
  /\ chain # Builder
  /\ chain' = Builder
  /\ UNCHANGED <<policy, built, acl, ret>>

(***************************************************************************)
(* AccessControl.hasPermission.  The program is single-threaded: one       *)
(* operation runs at a time, and a check is made between two builder       *)
(* statements.  ret holds the call and its completion until the caller     *)
(* moves on (Discard).                                                     *)
(***************************************************************************)
\* Variant: a verdict reached through a declared role's rule is written back
\* into the store as a static rule.
HasPermissionMemo ==
  /\ acl
  /\ chain = Builder
  /\ ret = NoCall
  /\ \E user \in Users, resource \in ResourceNames, action \in ActionNames,
        data \in Instances :
       LET out == hasPermission(policy, user, resource, action, data)
           memo == /\ out.c = "return"
                   /\ user.roles.t = "array"
                   /\ Len(user.roles.elems) >= 1
                   /\ user.roles.elems[1] \in DeclRoles
                   /\ resource \in DeclResources
                   /\ action \in DeclActions
                   /\ policy[user.roles.elems[1]] # Undefined
                   /\ policy[user.roles.elems[1]][resource] # Undefined
       IN /\ ret' = [call |-> "hasPermission", user |-> user,
                     resource |-> resource, action |-> action, data |-> data,
                     out |-> out]
          /\ policy' = IF memo
                         THEN [policy EXCEPT
                                 ![user.roles.elems[1]][resource][action] = out.v]
                         ELSE policy
  /\ UNCHANGED <<chain, built, acl>>

\* Variant: the verdict of the call before is reused when the caller, the
\* resource and the action are the same (a memo that ignores the instance).
HasPermissionCached ==
  /\ acl
  /\ chain = Builder
  /\ \E user \in Users, resource \in ResourceNames, action \in ActionNames,
        data \in Instances :
       LET hit == /\ ret # NoCall
                  /\ ret.user = user
                  /\ ret.resource = resource
                  /\ ret.action = action
       IN ret' = [call |-> "hasPermission", user |-> user,
                  resource |-> resource, action |-> action, data |-> data,
                  out |-> IF hit THEN ret.out
                          ELSE hasPermission(policy, user, resource, action, data)]
  /\ UNCHANGED <<policy, chain, built, acl>>

HasPermission ==
  /\ acl
  /\ chain = Builder
  /\ ret = NoCall
  /\ \E user \in Users, resource \in ResourceNames, action \in ActionNames,
        data \in Instances :
       ret' = [call |-> "hasPermission", user |-> user, resource |-> resource,
               action |-> action, data |-> data,
               out |-> hasPermission(policy, user, resource, action, data)]
  /\ UNCHANGED <<policy, chain, built, acl>>

Discard ==
  /\ ret # NoCall
  /\ ret' = NoCall
  /\ UNCHANGED <<policy, chain, built, acl>>

\* The builder and the checks made on the stores it hands out.  No history
\* is kept.
Next ==
  \/ (\E role \in DeclRoles : ForRole(role)) /\ UNCHANGED <<log, kept>>
  \/ OnResource /\ UNCHANGED <<log, kept>>
  \/ (\E actions \in ActionMaps : Can(actions)) /\ UNCHANGED <<log, kept>>
  \/ EndStatement /\ UNCHANGED <<log, kept>>
  \/ UpdatePolicy /\ UNCHANGED <<log, kept>>
  \/ Build /\ UNCHANGED <<log, kept>>
  \/ NewAccessControl /\ UNCHANGED <<log, kept>>
  \/ HasPermission /\ UNCHANGED <<log, kept>>
  \/ Discard /\ UNCHANGED <<log, kept>>

Spec == Init /\ [][Next]_vars

(***************************************************************************)
(* The builder alone, used through its chain (forRole, onResource, can,    *)
(* build), with the history of its calls: every forRole, can and build     *)
(* call is appended to log, build with the content of the store it         *)
(* returned at that moment.  MaxLog bounds the calls recorded.             *)
(***************************************************************************)
MaxLog == 6

BuilderNext ==
  \/ /\ Len(log) < MaxLog
     /\ \E role \in DeclRoles :
          /\ ForRole(role)
          /\ log' = Append(log, [op |-> "forRole", role |-> role])
     /\ UNCHANGED kept
  \/ OnResource /\ UNCHANGED <<log, kept>>
  \/ /\ Len(log) < MaxLog
     /\ \E actions \in ActionMaps :
          /\ Can(actions)
          /\ log' = Append(log, [op |-> "can", role |-> chain.role,
                                 resource |-> chain.resource,
                                 actions |-> actions])
     /\ UNCHANGED kept
  \/ EndStatement /\ UNCHANGED <<log, kept>>
  \/ /\ Len(log) < MaxLog
     /\ Build
     /\ log' = Append(log, [op |-> "build", store |-> policy])
     /\ UNCHANGED kept

BuilderSpec == Init /\ [][BuilderNext]_vars

(***************************************************************************)
(* Stage objects kept by the caller.  `const stage = b.forRole(r)` or      *)
(* `const stage = b.forRole(r).onResource(x)` stores the stage object; the *)
(* builder is used on, and the stored stage is used later, any number of   *)
(* times.                                                                  *)
(***************************************************************************)
Keep ==
  /\ chain.stage \in {"role", "resource"}
  /\ kept' = chain
  /\ chain' = Builder
  /\ UNCHANGED <<policy, built, acl, ret>>

\* stage.onResource(resource) on a kept role stage:
\* new PolicyBuilderResource(this.builder, this.role, resource)
KeptOnResource ==
  /\ kept.stage = "role"
  /\ chain = Builder
  /\ \E resource \in ResourcesFor(kept.role) :
       chain' = ResourceStage(kept.role, resource)
  /\ UNCHANGED <<policy, built, acl, ret>>

\* Variant: the stage writes to the role most recently given to forRole.
KeptCanCurrentRole(actions) ==
  /\ kept.stage = "resource"
  /\ chain = Builder
  /\ LET forRoles == {i \in 1..Len(log) : log[i].op = "forRole"}
         role == log[CHOOSE i \in forRoles : \A j \in forRoles : j <= i].role
     IN policy' = updatePolicy(policy, role, kept.resource, actions)
  /\ chain' = Builder
  /\ UNCHANGED <<built, acl, ret>>

\* stage.can(actions) on a kept resource stage:
\* this.builder.updatePolicy(this.role, this.resource, actions)
KeptCan(actions) ==
  /\ kept.stage = "resource"
  /\ chain = Builder
  /\ policy' = updatePolicy(policy, kept.role, kept.resource, actions)
  /\ chain' = Builder
  /\ UNCHANGED <<built, acl, ret>>

\* The calls recorded while a stage object is kept.
MaxStageLog == 4

StageNext ==
  \/ /\ Len(log) < MaxStageLog
     /\ \E role \in DeclRoles :
          /\ ForRole(role)
          /\ log' = Append(log, [op |-> "forRole", role |-> role])
     /\ UNCHANGED kept
  \/ OnResource /\ UNCHANGED <<log, kept>>
  \/ /\ Len(log) < MaxStageLog
     /\ \E actions \in ActionMaps :
          /\ Can(actions)
          /\ log' = Append(log, [op |-> "can", role |-> chain.role,
                                 resource |-> chain.resource,
                                 actions |-> actions])
     /\ UNCHANGED kept
  \/ EndStatement /\ UNCHANGED <<log, kept>>
  \/ Keep /\ UNCHANGED log
  \/ KeptOnResource /\ UNCHANGED <<log, kept>>
  \/ /\ Len(log) < MaxStageLog
     /\ \E actions \in ActionMaps :
          /\ KeptCan(actions)
          /\ log' = Append(log, [op |-> "keptCan", actions |-> actions])
     /\ UNCHANGED kept

StageSpec == Init /\ [][StageNext]_vars

(***************************************************************************)
(* Vocabulary of the properties                                            *)
(***************************************************************************)
Called == ret # NoCall
HoldsList == Called /\ ret.user.roles.t = "array"
HeldRoles == ret.user.roles.elems

\* What the caller of hasPermission sees.
OutcomeOf(out) ==
  IF out.c = "throw" THEN "fault" ELSE IF Truthy(out.v) THEN "grant" ELSE "deny"
Outcome == OutcomeOf(ret.out)

\* The store's own entries (no inherited property counts as an entry).
Declared(role) == role \in DOMAIN policy /\ policy[role] # Undefined
HasResource(role, resource) ==
  /\ Declared(role)
  /\ resource \in DOMAIN policy[role]
  /\ policy[role][resource] # Undefined
HasRule(role, resource, action) ==
  /\ HasResource(role, resource)
  /\ action \in DOMAIN policy[role][resource]
  /\ policy[role][resource][action] # Undefined
RuleOf(role, resource, action) == policy[role][resource][action]

\* The completion of resolving one held role for the completed call.
Resolved(role) ==
  checkRolePermission(policy, role, ret.resource, ret.action, ret.user, ret.data)
NoRoleFaults(list) == \A i \in 1..Len(list) : Resolved(list[i]).c = "return"

Range(list) == {list[i] : i \in 1..Len(list)}

(***************************************************************************)
(* C1: when no held role's rule faults, hasPermission grants if and only   *)
(* if at least one held role resolves to grant; a deny of another held     *)
(* role never overrides it.                                                *)
(***************************************************************************)
C1_OrAggregation ==
  (HoldsList /\ NoRoleFaults(HeldRoles)) =>
    /\ Outcome \in {"grant", "deny"}
    /\ Outcome = "grant" <=>
         \E i \in 1..Len(HeldRoles) : Truthy(Resolved(HeldRoles[i]).v)

\* A role with a static false rule is listed before a role that grants.
C1_Witness ==
  /\ HoldsList
  /\ Len(HeldRoles) = 2
  /\ HasRule(HeldRoles[1], ret.resource, ret.action)
  /\ RuleOf(HeldRoles[1], ret.resource, ret.action) = Bool(FALSE)
  /\ Truthy(Resolved(HeldRoles[2]).v)
  /\ Outcome = "grant"

(***************************************************************************)
(* C2: a role whose ResourcePolicy has a rule under '*' and no entry for   *)
(* the requested action is resolved with the '*' rule, so can({'*': true}) *)
(* grants every action name on that resource.                              *)
(***************************************************************************)
C2_WildcardFallback ==
  (/\ HoldsList
   /\ Len(HeldRoles) = 1
   /\ HasRule(HeldRoles[1], ret.resource, "*")
   /\ RuleOf(HeldRoles[1], ret.resource, "*") = Bool(TRUE)
   /\ ~HasRule(HeldRoles[1], ret.resource, ret.action))
    => Outcome = "grant"

(***************************************************************************)
(* C3: where every held role has both a rule for the requested action and  *)
(* a '*' rule on the requested resource, each role is resolved with its    *)
(* action-specific rule, never with the '*' rule.                          *)
(***************************************************************************)
SpecificVerdict(role) ==
  evaluateCheck(RuleOf(role, ret.resource, ret.action), ret.user, ret.data)

C3_WildcardPrecedence ==
  (/\ HoldsList
   /\ Len(HeldRoles) >= 1
   /\ ret.action # "*"
   /\ \A i \in 1..Len(HeldRoles) :
        /\ HasRule(HeldRoles[i], ret.resource, ret.action)
        /\ HasRule(HeldRoles[i], ret.resource, "*")
        /\ SpecificVerdict(HeldRoles[i]).c = "return")
    => (Outcome = "grant" <=>
          \E i \in 1..Len(HeldRoles) : Truthy(SpecificVerdict(HeldRoles[i]).v))

\* {'*': true, delete: false} denies delete.
C3_Witness ==
  /\ HoldsList
  /\ Len(HeldRoles) = 1
  /\ ret.action = "delete"
  /\ HasRule(HeldRoles[1], ret.resource, "delete")
  /\ RuleOf(HeldRoles[1], ret.resource, "delete") = Bool(FALSE)
  /\ HasRule(HeldRoles[1], ret.resource, "*")
  /\ RuleOf(HeldRoles[1], ret.resource, "*") = Bool(TRUE)
  /\ Outcome = "deny"

(***************************************************************************)
(* C4: a caller all of whose roles are absent from the store is denied,    *)
(* for every resource, action and instance.                                *)
(***************************************************************************)
C4_UndeclaredRolesDenied ==
  (HoldsList /\ \A i \in 1..Len(HeldRoles) : ~Declared(HeldRoles[i]))
    => Outcome = "deny"

(***************************************************************************)
(* C5: a held role that is undeclared, or declared without the requested   *)
(* resource, or declared with the resource but without the requested       *)
(* action contributes deny and never a fault.  Stated for callers all of   *)
(* whose roles are declared: the caller of undeclared roles is C4's.       *)
(***************************************************************************)
C5_AbsenceDenies ==
  (HoldsList /\ \A i \in 1..Len(HeldRoles) :
                  /\ Declared(HeldRoles[i])
                  /\ ~HasRule(HeldRoles[i], ret.resource, ret.action))
    => Outcome = "deny"

C7_Monotone ==
  (HoldsList /\ Outcome = "grant") =>
    \A more \in RoleLists :
      Range(HeldRoles) \subseteq Range(more) =>
        \/ OutcomeOf(hasPermission(policy, [ret.user EXCEPT !.roles = Arr(more)],
                                   ret.resource, ret.action, ret.data)) = "grant"
        \/ ~NoRoleFaults(more)

\* A granted caller for whom an added role, listed first, resolves to deny.
C7_Witness ==
  /\ HoldsList
  /\ Len(HeldRoles) = 1
  /\ Outcome = "grant"
  /\ \E r \in DeclRoles :
       /\ r # HeldRoles[1]
       /\ HasRule(r, ret.resource, ret.action)
       /\ Resolved(r).c = "return"
       /\ ~Truthy(Resolved(r).v)

(***************************************************************************)
(* C8: a caller with zero roles (an empty list, or no roles attribute, or  *)
(* a null one) is denied without a fault.                                  *)
(***************************************************************************)
C8_NoRolesDenied ==
  (Called /\ ret.user.roles \in {Arr(<<>>), Undefined, Null})
    => Outcome = "deny"

\* No roles attribute, while some declared role has a rule for the request.
C8_Witness ==
  /\ Called
  /\ ret.user.roles = Undefined
  /\ \E r \in DeclRoles : HasRule(r, ret.resource, ret.action)
  /\ Outcome = "deny"

(***************************************************************************)
(* C9: a caller whose roles value is present but is no list (a string, a   *)
(* number, a plain object) is treated as holding zero roles: deny, no      *)
(* fault.                                                                  *)
(***************************************************************************)
C9_NonListRolesDenied ==
  (Called /\ ret.user.roles.t \in {"string", "number", "object"})
    => Outcome = "deny"

(***************************************************************************)
(* C10: a static rule resolves to its own boolean for every caller and     *)
(* instance: a single-role caller is granted by static true and denied by  *)
(* static false, whatever instance is passed or omitted.                   *)
(***************************************************************************)
C10_StaticRule ==
  (/\ HoldsList
   /\ Len(HeldRoles) = 1
   /\ HasRule(HeldRoles[1], ret.resource, ret.action)
   /\ RuleOf(HeldRoles[1], ret.resource, ret.action).t = "boolean")
    => Outcome =
         (IF RuleOf(HeldRoles[1], ret.resource, ret.action).b
            THEN "grant" ELSE "deny")

\* Static true grants with the instance omitted.
C10_Witness ==
  /\ HoldsList
  /\ Len(HeldRoles) = 1
  /\ HasRule(HeldRoles[1], ret.resource, ret.action)
  /\ RuleOf(HeldRoles[1], ret.resource, ret.action) = Bool(TRUE)
  /\ ret.data = Undefined
  /\ Outcome = "grant"

(***************************************************************************)
(* C11: a dynamic rule is invoked with exactly the caller and the resource *)
(* instance given to hasPermission (undefined when none was given), and    *)
(* the role's verdict is the rule's own return value: under the rule       *)
(* user.id === article.authorId a single-role caller is granted exactly    *)
(* when the two ids are equal.                                             *)
(***************************************************************************)
SingleRoleRule ==
  /\ HoldsList
  /\ Len(HeldRoles) = 1
  /\ HasRule(HeldRoles[1], ret.resource, ret.action)

C11_DynamicRule ==
  Called =>
    /\ \A i \in 1..Len(ret.out.calls) :
         ret.out.calls[i].user = ret.user /\ ret.out.calls[i].data = ret.data
    /\ (SingleRoleRule /\ RuleOf(HeldRoles[1], ret.resource, ret.action) = IsOwner) =>
         /\ Len(ret.out.calls) = 1
         /\ ret.out.calls[1].fn = IsOwner
         /\ ret.data \notin {Undefined, Null} =>
              (Outcome = IF ret.user.id = ret.data.authorId THEN "grant" ELSE "deny")

\* The author of another article is denied by the ownership rule.
C11_Witness ==
  /\ SingleRoleRule
  /\ RuleOf(HeldRoles[1], ret.resource, ret.action) = IsOwner
  /\ ret.data = Article("2")
  /\ Len(ret.out.calls) = 1
  /\ Outcome = "deny"

(***************************************************************************)
(* C12: with non-faulting rules the verdict depends only on the set of     *)
(* distinct roles held: repeating a role or reordering the list never      *)
(* changes it.  Stated through one list chosen for each set of roles, its  *)
(* roles once each in a fixed order: every list gets the verdict of the    *)
(* list chosen for its set, so two lists of the same set get the same.     *)
(***************************************************************************)
RECURSIVE Listed(_)
Listed(roleSet) ==
  IF roleSet = {} THEN <<>>
  ELSE LET role == CHOOSE r \in roleSet : TRUE
       IN <<role>> \o Listed(roleSet \ {role})

C12_RoleSetOnly ==
  (HoldsList /\ NoRoleFaults(HeldRoles)) =>
    OutcomeOf(hasPermission(policy,
                            [ret.user EXCEPT !.roles = Arr(Listed(Range(HeldRoles)))],
                            ret.resource, ret.action, ret.data)) = Outcome

\* A granting role listed twice.
C12_Witness ==
  /\ HoldsList
  /\ Len(HeldRoles) = 2
  /\ HeldRoles[1] = HeldRoles[2]
  /\ HasRule(HeldRoles[1], ret.resource, ret.action)
  /\ Outcome = "grant"

(***************************************************************************)
(* C13: no role hierarchy.  The result of hasPermission depends only on    *)
(* the store entries of the roles the caller holds: two stores that agree  *)
(* on those roles give the same result.  Stated through the store that     *)
(* keeps the held roles' entries and nothing else: every store gives the   *)
(* result that this common part of all stores agreeing with it gives.      *)
(***************************************************************************)
OnlyRoles(roles, held) ==
  [r \in DOMAIN roles |-> IF r \in held THEN roles[r] ELSE Undefined]

C13_NoHierarchy ==
  HoldsList =>
    hasPermission(OnlyRoles(policy, Range(HeldRoles)),
                  ret.user, ret.resource, ret.action, ret.data) = ret.out

\* An author is denied what the store grants to admin.
C13_Witness ==
  /\ HoldsList
  /\ HeldRoles = <<"author">>
  /\ Declared("author")
  /\ HasRule("admin", ret.resource, ret.action)
  /\ RuleOf("admin", ret.resource, ret.action) = Bool(TRUE)
  /\ Outcome = "deny"


(***************************************************************************)
(* C14: absence and explicit deny are observationally equivalent.  For     *)
(* every (role, resource, action) triple without an entry in the store,    *)
(* the store with a static deny rule added for exactly that triple gives   *)
(* the completed call the same result as the store itself.                 *)
(***************************************************************************)
AddDeny(roles, role, resource, action) ==
  LET ensured == EnsureRole(roles, role)
      actions == IF ensured[role][resource] = Undefined
                   THEN EmptyObject(DeclActions)
                   ELSE ensured[role][resource]
  IN [ensured EXCEPT ![role][resource] = [actions EXCEPT ![action] = Bool(FALSE)]]

C14_AbsenceEqualsDeny ==
  Called =>
    \A role \in DeclRoles, resource \in DeclResources, action \in DeclActions :
      ~HasRule(role, resource, action) =>
        OutcomeOf(hasPermission(AddDeny(policy, role, resource, action),
                                ret.user, ret.resource, ret.action, ret.data))
          = Outcome


(***************************************************************************)
(* C15: there is no resource-level wildcard.  The rules declared under the *)
(* resource name '*' are consulted only when the request names '*': a      *)
(* request naming any other resource completes exactly as it does on the   *)
(* store without any '*' resource entry (same result, same rules called).  *)
(***************************************************************************)
WithoutStarResource(roles) ==
  [r \in DOMAIN roles |->
     IF roles[r] = Undefined THEN Undefined
     ELSE [roles[r] EXCEPT !["*"] = Undefined]]

CanDoEverything(role) ==
  /\ HasResource(role, "*")
  /\ policy[role]["*"] = ActionMap(Undefined, Bool(TRUE))

C16_StarStarGrantsAll ==
  ( /\ HoldsList
    /\ Len(HeldRoles) >= 1
    /\ CanDoEverything(HeldRoles[1])
    /\ ret.resource \in DeclResources
    /\ ret.action \in DeclActions \cup {"read"} )
    => Outcome = "grant"


(***************************************************************************)
(* Vocabulary of the builder's history                                     *)
(***************************************************************************)
\* The can() calls recorded for a (role, resource) pair, by position.
CansFor(role, resource) ==
  {i \in 1..Len(log) : /\ log[i].op = "can"
                       /\ log[i].role = role
                       /\ log[i].resource = resource}
Latest(positions) == CHOOSE i \in positions : \A j \in positions : j <= i

(***************************************************************************)
(* C17: last write replaces.  After any sequence of builder calls the      *)
(* store maps each (role, resource) pair that can() was called for to      *)
(* exactly the action map of the most recent such call, and has no entry   *)
(* for a pair can() was never called for: no action of an earlier          *)
(* declaration of the pair survives.                                       *)
(***************************************************************************)
C17_LastWriteReplaces ==
  \A role \in DeclRoles, resource \in DeclResources :
    IF CansFor(role, resource) = {}
      THEN ~HasResource(role, resource)
      ELSE policy[role][resource] = log[Latest(CansFor(role, resource))].actions

\* A pair declared with a '*' rule is declared again without one, and the
\* store has no '*' rule for it.
C17_Witness ==
  \E role \in DeclRoles, resource \in DeclResources :
    \E i, j \in CansFor(role, resource) :
      /\ i < j
      /\ j = Latest(CansFor(role, resource))
      /\ log[i].actions["*"] = Bool(TRUE)
      /\ log[j].actions["*"] = Undefined
      /\ log[j].actions["delete"] = IsOwner
      /\ policy[role][resource] = ActionMap(IsOwner, Undefined)


(***************************************************************************)
(* C18: declaring a role that already exists is idempotent.  A forRole(r)  *)
(* call for a role the store already has leaves the whole store as it is   *)
(* (every action map declared earlier for r included), and a forRole call  *)
(* for any role leaves every other role's entries unchanged.               *)
(***************************************************************************)
ForRoleCalled(role) ==
  /\ Len(log') = Len(log) + 1
  /\ log'[Len(log')] = [op |-> "forRole", role |-> role]

C18_ForRoleIdempotent ==
  [][\A role \in DeclRoles :
       ForRoleCalled(role) =>
         /\ Declared(role) => policy' = policy
         /\ \A other \in DeclRoles \ {role} : policy'[other] = policy[other]]_vars

\* forRole has just been called for a role declared earlier with rules,
\* and the rules are in the store.
C18_Witness ==
  \E role \in DeclRoles, resource \in DeclResources :
    /\ Len(log) >= 1
    /\ log[Len(log)] = [op |-> "forRole", role |-> role]
    /\ chain = RoleStage(role)
    /\ CansFor(role, resource) # {}
    /\ HasResource(role, resource)
    /\ policy[role][resource] = log[Latest(CansFor(role, resource))].actions


(***************************************************************************)
(* C19: build is a non-consuming read.  What the builder has accumulated   *)
(* is what the forRole and can calls made so far declare, whatever build   *)
(* calls were made among them; and every build call returned exactly what  *)
(* the calls before it declare.  So build leaves the accumulated state     *)
(* unchanged, two builds with no declaration between them return the same  *)
(* content, and declarations made after a build appear in the next build   *)
(* together with everything declared before.                               *)
(***************************************************************************)
RECURSIVE Declares(_, _)
\* The store that the first n recorded calls declare, build calls skipped.
Declares(calls, n) ==
  IF n = 0 THEN EmptyObject(DeclRoles)
  ELSE LET before == Declares(calls, n - 1)
           call == calls[n]
       IN CASE call.op = "forRole" -> EnsureRole(before, call.role)
            [] call.op = "can" ->
                 updatePolicy(before, call.role, call.resource, call.actions)
            [] call.op = "build" -> before

C19_BuildNonConsuming ==
  /\ policy = Declares(log, Len(log))
  /\ \A i \in 1..Len(log) :
       log[i].op = "build" => log[i].store = Declares(log, i - 1)

\* A rule declared before a first build and a rule declared after it are
\* both in the store a second build returned.
C19_Witness ==
  \E i \in 1..Len(log) :
    /\ log[i].op = "build"
    /\ \E k \in (i + 1)..Len(log) :
         /\ log[k].op = "build"
         /\ log[k].store # log[i].store
         /\ \E h \in 1..(i - 1), j \in (i + 1)..(k - 1) :
              /\ log[h].op = "can"
              /\ log[j].op = "can"
              /\ <<log[h].role, log[h].resource>> # <<log[j].role, log[j].resource>>
              /\ log[k].store[log[h].role][log[h].resource] = log[h].actions
              /\ log[k].store[log[j].role][log[j].resource] = log[j].actions


(***************************************************************************)
(* C20: a store returned by build is immutable from then on.  The store    *)
(* that a build call returned is the builder's own policy object, so its   *)
(* content now is policy; the claim is that this is still the content it   *)
(* had when it was returned, whatever was declared afterwards.             *)
(***************************************************************************)
C20_ReturnedStoreImmutable ==
  \A i \in 1..Len(log) : log[i].op = "build" => policy = log[i].store


(***************************************************************************)
(* C21: hasPermission never mutates the policy store.  Every step in which *)
(* a hasPermission call completes, with a grant, a deny or a fault, leaves *)
(* the store's role, resource and action entries exactly as they were.     *)
(***************************************************************************)
HasPermissionCompletes == ret = NoCall /\ ret' # NoCall

C21_DecideNeverMutates ==
  [][HasPermissionCompletes => policy' = policy]_vars

\* A call that invoked a declared rule function has completed on a store
\* that still holds the function as the rule.
C21_Witness ==
  /\ SingleRoleRule
  /\ RuleOf(HeldRoles[1], ret.resource, ret.action) = IsOwner
  /\ Len(ret.out.calls) = 1
  /\ Outcome \in {"grant", "fault"}


EntryOf(roles, role, resource) ==
  IF roles[role] = Undefined THEN Undefined ELSE roles[role][resource]

C23_StagedWritesOnly ==
  [][\A role \in DeclRoles, resource \in DeclResources :
       EntryOf(policy', role, resource) # EntryOf(policy, role, resource) =>
         /\ chain = ResourceStage(role, resource)
         /\ chain' = Builder]_vars


(***************************************************************************)
(* C24: after can(...) the chain may continue directly with                *)
(* onResource(otherResource) without a new forRole, for the role most      *)
(* recently given to forRole: an onResource call made on what can() has    *)
(* just returned yields a resource stage of that role.                     *)
(***************************************************************************)
C24_ChainContinuesAfterCan ==
  [][( /\ OnResource
       /\ Len(log) >= 1
       /\ log[Len(log)].op = "can"
       /\ chain = Builder )
       => /\ chain'.stage = "resource"
          /\ chain'.role = log[Len(log)].role]_vars


(***************************************************************************)
(* C25: missing data is handled gracefully.  When the instance passed to   *)
(* hasPermission is null or omitted and the rule that matches is the       *)
(* predicate reading a field of the instance (user.id ===                  *)
(* article.authorId), hasPermission returns false and does not throw.      *)
(***************************************************************************)
C25_MissingDataDenied ==
  ( /\ SingleRoleRule
    /\ RuleOf(HeldRoles[1], ret.resource, ret.action) = IsOwner
    /\ ret.data \in {Undefined, Null} )
    => /\ ret.out.c = "return"
       /\ ret.out.v = Bool(FALSE)


(***************************************************************************)
(* C26: short-circuit on first grant.  Within one hasPermission call the   *)
(* roles are resolved one after another in list order, and once a role     *)
(* resolves to grant (none before it having faulted) the call returns      *)
(* grant and the rules invoked are those of the roles up to that one: no   *)
(* rule of a later role is invoked.                                        *)
(***************************************************************************)
Grants(role) == Resolved(role).c = "return" /\ Truthy(Resolved(role).v)
Denies(role) == Resolved(role).c = "return" /\ ~Truthy(Resolved(role).v)

RECURSIVE CallsUpTo(_)
\* The rules invoked when the first n roles held are resolved in turn.
CallsUpTo(n) ==
  IF n = 0 THEN <<>> ELSE CallsUpTo(n - 1) \o Resolved(HeldRoles[n]).calls

C26_ShortCircuit ==
  HoldsList =>
    \A i \in 1..Len(HeldRoles) :
      (Grants(HeldRoles[i]) /\ \A j \in 1..(i - 1) : Denies(HeldRoles[j])) =>
        /\ Outcome = "grant"
        /\ ret.out.calls = CallsUpTo(i)

\* The first role grants by a static rule; the second has the ownership
\* rule, which would fault on the omitted instance, and is never invoked.
C26_Witness ==
  /\ HoldsList
  /\ Len(HeldRoles) = 2
  /\ HeldRoles[1] # HeldRoles[2]
  /\ HasRule(HeldRoles[1], ret.resource, ret.action)
  /\ RuleOf(HeldRoles[1], ret.resource, ret.action) = Bool(TRUE)
  /\ HasRule(HeldRoles[2], ret.resource, ret.action)
  /\ RuleOf(HeldRoles[2], ret.resource, ret.action) = IsOwner
  /\ ret.data = Undefined
  /\ ret.out.calls = <<>>
  /\ Outcome = "grant"


(***************************************************************************)
(* C27: the outcome of hasPermission, a propagated fault counted as an     *)
(* outcome alongside grant and deny, is the same for every ordering of the *)
(* caller's role list.  Stated for the list and the same list reversed.    *)
(***************************************************************************)
Reverse(list) == [i \in 1..Len(list) |-> list[Len(list) + 1 - i]]

C27_OrderIndependentOutcome ==
  HoldsList =>
    OutcomeOf(hasPermission(policy,
                            [ret.user EXCEPT !.roles = Arr(Reverse(HeldRoles))],
                            ret.resource, ret.action, ret.data)) = Outcome


(***************************************************************************)
(* C28: within one hasPermission call a rule is resolved once per distinct *)
(* role: a role repeated in the caller's list has its dynamic rule invoked *)
(* at most once, so the call invokes at most as many rules as the caller   *)
(* holds distinct roles.                                                   *)
(***************************************************************************)
C28_OncePerDistinctRole ==
  HoldsList => Len(ret.out.calls) <= Cardinality(Range(HeldRoles))


(***************************************************************************)
(* C29: a can() declaration for (role, resource) changes only that pair's  *)
(* action map.  Every other pair's entry and every other role's presence   *)
(* in the store are left as they were, so a declaration for another pair   *)
(* made next gives the same store as when it is made first.                *)
(***************************************************************************)
CanCalled(role, resource) ==
  /\ Len(log') = Len(log) + 1
  /\ log'[Len(log')].op = "can"
  /\ log'[Len(log')].role = role
  /\ log'[Len(log')].resource = resource

C29_CanFrame ==
  [][\A role \in DeclRoles, resource \in DeclResources :
       CanCalled(role, resource) =>
         /\ \A r \in DeclRoles \ {role} : policy'[r] = policy[r]
         /\ \A x \in DeclResources \ {resource} :
              EntryOf(policy', role, x) = EntryOf(policy, role, x)
         /\ \A r \in DeclRoles, x \in DeclResources, actions \in ActionMaps :
              <<r, x>> # <<role, resource>> =>
                updatePolicy(policy', r, x, actions)
                  = updatePolicy(updatePolicy(policy, r, x, actions),
                                 role, resource, log'[Len(log')].actions)]_vars

\* can() has just declared a pair for a role that has another resource
\* declared, in a store that has another role with a resource: both are
\* still there.
C29_Witness ==
  /\ chain = Builder
  /\ Len(log) >= 1
  /\ log[Len(log)].op = "can"
  /\ \E x \in DeclResources \ {log[Len(log)].resource} :
       /\ CansFor(log[Len(log)].role, x) # {}
       /\ HasResource(log[Len(log)].role, x)
  /\ \E r \in DeclRoles \ {log[Len(log)].role}, x \in DeclResources :
       /\ CansFor(r, x) # {}
       /\ HasResource(r, x)


(***************************************************************************)
(* C30: stage objects are bound to the role and resource given when they   *)
(* were created.  A kept resource stage used after other forRole,          *)
(* onResource and can calls on the same builder writes the given action    *)
(* map to its own (role, resource) pair and to no other pair, each time it *)
(* is used; a kept role stage yields resource stages of its own role.      *)
(***************************************************************************)
KeptCanCalled(actions) ==
  /\ Len(log') = Len(log) + 1
  /\ log'[Len(log')] = [op |-> "keptCan", actions |-> actions]

C30_StagesAreBound ==
  [][/\ \A actions \in ActionMaps :
          KeptCanCalled(actions) =>
            \A role \in DeclRoles, resource \in DeclResources :
              EntryOf(policy', role, resource)
                = IF <<role, resource>> = <<kept.role, kept.resource>>
                    THEN actions
                    ELSE EntryOf(policy, role, resource)
     /\ (chain = Builder /\ chain'.stage = "resource") =>
          (kept.stage = "role" /\ chain'.role = kept.role)]_vars

\* A kept resource stage has been used twice after forRole was called for
\* another role: its own pair holds the map given last, and the other role
\* has no entry for the resource.
C30_Witness ==
  /\ kept.stage = "resource"
  /\ Len(log) >= 3
  /\ log[Len(log)].op = "keptCan"
  /\ log[Len(log) - 1].op = "keptCan"
  /\ log[Len(log) - 1].actions # log[Len(log)].actions
  /\ log[Len(log) - 2].op = "forRole"
  /\ log[Len(log) - 2].role # kept.role
  /\ EntryOf(policy, kept.role, kept.resource) = log[Len(log)].actions
  /\ EntryOf(policy, log[Len(log) - 2].role, kept.resource) = Undefined

====
